---- MODULE Spec2Model ----
(***************************************************************************)
(* persidate: Jalali <-> Gregorian conversion and formatting helpers.      *)
(*                                                                         *)
(* The library is a set of stateless functions (src/src/index.ts).  Each   *)
(* specification below is a driver that calls one family of functions on   *)
(* inputs drawn from bounded sets and records the arguments and the value  *)
(* returned (or the error raised) in the state.                            *)
(*                                                                         *)
(*   SpecConv  toGregorian, isLeapYearJalali                               *)
(*   SpecFmt   convertToStandardDateTime, convertToISODateTime,            *)
(*             convertToJalaliDate, formatToJalaliDatePadded,              *)
(*             formatToLocalizedDate                                       *)
(*   SpecTime  getDaysFromNow, getTimeAgo, getCurrentTime,                 *)
(*             getTimeFromDate, getTimeParts                               *)
(*   SpecGreg  convertToGregorianDateString, formatToGregorianDate,        *)
(*             formatToGregorianDateTime, convertToJalaliDate on the       *)
(*             README's calls                                              *)
(*   SpecNames convertToJalaliDate on every day of a Jalali year           *)
(*   SpecDate  addDaysToDate, convertToGregorianDate on hosts with and     *)
(*             without daylight saving                                     *)
(*   SpecYear  toGregorian on 1 Farvardin of successive years              *)
(*   SpecIso   convertToStandardDateTime and convertToISODateTime on the   *)
(*             same Date                                                   *)
(***************************************************************************)
EXTENDS Integers, Sequences, FiniteSets, TLC

VARIABLES
    arg,        \* <<jy, jm, jd>> of the last toGregorian call, or None
    ret,        \* <<gy, gm, gd>> it returned, or None
    iters,      \* number of month-table loop bodies that call executed
    prevArg,    \* the call before it, when the driver stepped to the next day
    prevRet,
    leapArg,    \* <<jalaliYear>> of the last isLeapYearJalali call, or None
    leapRet,    \* <<the boolean it returned>>, or None
    tz,         \* the host's getTimezoneOffset() in minutes (UTC - local)
    fmtOp,      \* name of the formatting function called, or "none"
    fmtDate,    \* its date argument: a string or a Date
    fmtFormat,  \* its format argument
    fmtRet,     \* the value it returned or the error it raised, or Pending
    now,        \* the time value new Date() gives during the call
    textArg,    \* the other string argument of the call, or undefined
    dst,        \* the host's daylight-saving period, or None
    daysArgs,   \* the day counts of the addDaysToDate calls to make
    dates,      \* the Date objects of the call: the input, then the results
    stdRet      \* what convertToStandardDateTime returned for the same
                \* Date, when the caller asks for both strings, or Pending

convVars == <<arg, ret, iters, prevArg, prevRet, leapArg, leapRet>>

fmtVars == <<tz, fmtOp, fmtDate, fmtFormat, fmtRet>>

hostVars == <<now, textArg, dst, daysArgs, dates, stdRet>>

vars == <<convVars, fmtVars, hostVars>>

None == <<>>

(***************************************************************************)
(* Bounds of the drivers.                                                  *)
(***************************************************************************)
YearSpan == 3        \* years on each side of 979 and of 1403
LeapYearSpan == 33   \* years on each side of 1403 given to isLeapYearJalali
MaxRawMonth == 14    \* unvalidated months are 0 .. MaxRawMonth
MaxRawDay == 35      \* unvalidated days are -1 .. MaxRawDay

(***************************************************************************)
(* JavaScript arithmetic on (safe) integers.                               *)
(***************************************************************************)
\* a % b of JavaScript for b > 0: the remainder has the sign of a
JsRem(a, b) == IF a >= 0 THEN a % b ELSE 0 - ((0 - a) % b)

\* Math.floor(a / b) for b > 0
MathFloorDiv(a, b) == a \div b

(***************************************************************************)
(* toGregorian, src/src/index.ts 469-522                                   *)
(***************************************************************************)
AnchorSwitch == 979

\* line 474: let gy = jy <= 979 ? 621 : 1600
gyBase(jy) == IF jy <= AnchorSwitch THEN 621 ELSE 1600

\* line 475: jy -= jy <= 979 ? 0 : 979
jyRel(jy) == jy - (IF jy <= AnchorSwitch THEN 0 ELSE AnchorSwitch)

\* a month offset whose second half of the year starts a day early
monthOffset_shortFirstHalf(jm) ==
    IF jm < 7 THEN (jm - 1) * 31 ELSE (jm - 7) * 30 + 185

\* a month offset that takes every month to have 30 days
monthOffset_thirtyDayMonths(jm) == (jm - 1) * 30

\* line 483: jm < 7 ? (jm - 1) * 31 : (jm - 7) * 30 + 186
monthOffset(jm) == IF jm < 7 THEN (jm - 1) * 31 ELSE (jm - 7) * 30 + 186

\* lines 477-483: let days = ...
elapsedDays(jy, jm, jd) ==
    LET j == jyRel(jy)
    IN  365 * j + MathFloorDiv(j, 33) * 8 + MathFloorDiv(JsRem(j, 33) + 3, 4)
          + 78 + jd + monthOffset(jm)

\* lines 485-486
reduce400(s) ==
    [gy |-> s.gy + 400 * MathFloorDiv(s.days, 146097),
     days |-> JsRem(s.days, 146097)]

\* lines 488-492
reduce100(s) ==
    IF s.days > 36524
    THEN LET d1 == s.days - 1
             d2 == JsRem(d1, 36524)
         IN  [gy |-> s.gy + 100 * MathFloorDiv(d1, 36524),
              days |-> IF d2 >= 365 THEN d2 + 1 ELSE d2]
    ELSE s

\* lines 494-495
reduce4(s) ==
    [gy |-> s.gy + 4 * MathFloorDiv(s.days, 1461),
     days |-> JsRem(s.days, 1461)]

\* lines 497-498: the year is advanced unconditionally, the day only
\* when days > 365
reduce1(s) ==
    [gy |-> s.gy + MathFloorDiv(s.days - 1, 365),
     days |-> IF s.days > 365 THEN JsRem(s.days - 1, 365) ELSE s.days]

\* lines 485-498 in order
yearReduction(jy, jm, jd) ==
    reduce1(reduce4(reduce100(reduce400(
        [gy |-> gyBase(jy), days |-> elapsedDays(jy, jm, jd)]))))

\* line 504 (and line 434)
isGregorianLeap(gy) ==
    (JsRem(gy, 4) = 0 /\ JsRem(gy, 100) # 0) \/ JsRem(gy, 400) = 0

\* lines 501-515: the month-length table, index 0 is a sentinel
sal_a(gy) ==
    [i \in 0..12 |->
        CASE i = 0 -> 0
          [] i = 2 -> IF isGregorianLeap(gy) THEN 29 ELSE 28
          [] i \in {4, 6, 9, 11} -> 30
          [] OTHER -> 31]

\* the walk with the loop condition gm <= 13: sal_a[13] is undefined, the
\* comparison with it is false and the subtraction gives NaN
RECURSIVE monthWalk_oneMore(_, _, _, _)
monthWalk_oneMore(tbl, gm, gd, n) ==
    IF gm <= 13
    THEN IF gm \in DOMAIN tbl
         THEN IF gd <= tbl[gm]
              THEN [gm |-> gm, gd |-> gd, n |-> n + 1]
              ELSE monthWalk_oneMore(tbl, gm + 1, gd - tbl[gm], n + 1)
         ELSE monthWalk_oneMore(tbl, gm + 1, "NaN", n + 1)
    ELSE [gm |-> gm, gd |-> gd, n |-> n]

\* lines 516-520: for (gm = 0; gm < 13; gm++) { if (gd <= sal_a[gm]) break;
\* gd -= sal_a[gm]; }  n counts the loop bodies executed
RECURSIVE monthWalk(_, _, _, _)
monthWalk(tbl, gm, gd, n) ==
    IF gm < 13
    THEN IF gd <= tbl[gm]
         THEN [gm |-> gm, gd |-> gd, n |-> n + 1]
         ELSE monthWalk(tbl, gm + 1, gd - tbl[gm], n + 1)
    ELSE [gm |-> gm, gd |-> gd, n |-> n]

\* lines 500-520
monthDecomposition(jy, jm, jd) ==
    LET s == yearReduction(jy, jm, jd)
    IN  monthWalk(sal_a(s.gy), 0, s.days + 1, 0)

\* line 521: return [gy, gm, gd]
toGregorian(jy, jm, jd) ==
    LET s == yearReduction(jy, jm, jd)
        w == monthDecomposition(jy, jm, jd)
    IN  <<s.gy, w.gm, w.gd>>

\* lines 432-435
isLeapYearJalali(jalaliYear) ==
    LET gy == toGregorian(jalaliYear, 1, 1)[1]
    IN  isGregorianLeap(gy)

(***************************************************************************)
(* Reference calendars, independent of the code above.  Days are counted   *)
(* from the anchor 1403/1/1 = 2024-03-20 (day 0).                          *)
(***************************************************************************)
RefJalaliLeapResidues == {1, 5, 9, 13, 17, 22, 26, 30}

RefJalaliLeap(y) == (y % 33) \in RefJalaliLeapResidues

\* number of leap years k with 0 <= k <= y
RefJalaliLeapsUpTo(y) ==
    8 * (y \div 33) + Cardinality({r \in RefJalaliLeapResidues : r <= y % 33})

RefJalaliMonthLength(y, m) ==
    IF m <= 6 THEN 31
    ELSE IF m <= 11 THEN 30
    ELSE IF RefJalaliLeap(y) THEN 30 ELSE 29

RefJalaliYearLength(y) == IF RefJalaliLeap(y) THEN 366 ELSE 365

RefJalaliMonthStart(m) == IF m <= 7 THEN (m - 1) * 31 ELSE 186 + (m - 7) * 30

ValidJalali(d) ==
    /\ d # None
    /\ d[2] \in 1..12
    /\ d[3] \in 1..RefJalaliMonthLength(d[1], d[2])

\* day number of 1/1 of Jalali year y
RefJalaliYearStart(y) ==
    365 * (y - 1403) + RefJalaliLeapsUpTo(y - 1) - RefJalaliLeapsUpTo(1402)

RefJalaliDayNumber(d) ==
    RefJalaliYearStart(d[1]) + RefJalaliMonthStart(d[2]) + d[3] - 1

RefJalaliOfDay(n) ==
    LET y0 == 1403 + ((n * 33) \div 12053)
        y == CHOOSE y \in (y0 - 1)..(y0 + 1) :
                 /\ RefJalaliYearStart(y) <= n
                 /\ n < RefJalaliYearStart(y + 1)
        r == n - RefJalaliYearStart(y)
        m == CHOOSE m \in 1..12 :
                 /\ RefJalaliMonthStart(m) <= r
                 /\ r < RefJalaliMonthStart(m) + RefJalaliMonthLength(y, m)
    IN  <<y, m, r - RefJalaliMonthStart(m) + 1>>

RefJalaliNextDay(d) ==
    IF d[3] < RefJalaliMonthLength(d[1], d[2]) THEN <<d[1], d[2], d[3] + 1>>
    ELSE IF d[2] < 12 THEN <<d[1], d[2] + 1, 1>>
    ELSE <<d[1] + 1, 1, 1>>

RefGregorianLeap(y) == (y % 4 = 0 /\ y % 100 # 0) \/ y % 400 = 0

RefGregorianMonthLength(y, m) ==
    IF m = 2 THEN (IF RefGregorianLeap(y) THEN 29 ELSE 28)
    ELSE IF m \in {4, 6, 9, 11} THEN 30 ELSE 31

RECURSIVE RefGregorianMonthStart(_, _)
RefGregorianMonthStart(y, m) ==
    IF m <= 1 THEN 0
    ELSE RefGregorianMonthStart(y, m - 1) + RefGregorianMonthLength(y, m - 1)

WellFormedGregorian(g) ==
    /\ g[2] \in 1..12
    /\ g[3] \in 1..RefGregorianMonthLength(g[1], g[2])

\* days from 0001-01-01 to January 1 of year y
RefGregorianYearStart(y) ==
    365 * (y - 1) + ((y - 1) \div 4) - ((y - 1) \div 100) + ((y - 1) \div 400)

\* day number (anchor 2024-03-20 = 0) of a year/month/day triple
RefGregorianDayNumber(g) ==
    RefGregorianYearStart(g[1]) + RefGregorianMonthStart(g[1], g[2]) + g[3] - 1
      - (RefGregorianYearStart(2024) + 31 + 29 + 19)

RefGregorianOfDay(n) ==
    LET a == n + RefGregorianYearStart(2024) + 31 + 29 + 19
        y0 == ((a * 400) \div 146097) + 1
        y == CHOOSE y \in (y0 - 1)..(y0 + 1) :
                 /\ RefGregorianYearStart(y) <= a
                 /\ a < RefGregorianYearStart(y + 1)
        r == a - RefGregorianYearStart(y)
        m == CHOOSE m \in 1..12 :
                 /\ RefGregorianMonthStart(y, m) <= r
                 /\ r < RefGregorianMonthStart(y, m) + RefGregorianMonthLength(y, m)
    IN  <<y, m, r - RefGregorianMonthStart(y, m) + 1>>

\* b is the calendar day after a
RefNextGregorianDay(a, b) ==
    /\ WellFormedGregorian(a)
    /\ WellFormedGregorian(b)
    /\ RefGregorianDayNumber(b) = RefGregorianDayNumber(a) + 1

\* a is strictly before b, as year/month/day triples
GregorianBefore(a, b) ==
    \/ a[1] < b[1]
    \/ a[1] = b[1] /\ a[2] < b[2]
    \/ a[1] = b[1] /\ a[2] = b[2] /\ a[3] < b[3]

(***************************************************************************)
(* JavaScript values of the formatting functions.  A string is a sequence  *)
(* of one-character strings; a value is a record of its kind and text.     *)
(* The Persian month names, weekday names and digits of the source cannot  *)
(* be written in an ASCII module: a name is one element holding its        *)
(* transliteration, a Persian digit d is the element "fa" \o d.            *)
(***************************************************************************)
StrVal(t) == [kind |-> "string", text |-> t]

NullVal == [kind |-> "null", text |-> <<>>]

UndefinedVal == [kind |-> "undefined", text |-> <<>>]

\* an error raised by the host and propagated to the caller
ThrowVal(name) == [kind |-> "throw", text |-> <<name>>]

Pending == [kind |-> "pending", text |-> <<>>]

\* the text of a value inside a template literal or a + concatenation
TemplateText(v) ==
    CASE v.kind = "string" -> v.text
      [] v.kind = "undefined" -> <<"u", "n", "d", "e", "f", "i", "n", "e", "d">>
      [] OTHER -> <<"n", "u", "l", "l">>

DigitChars == <<"0", "1", "2", "3", "4", "5", "6", "7", "8", "9">>

IsDigit(c) == \E i \in 1..10 : DigitChars[i] = c

DigitValue(c) == (CHOOSE i \in 1..10 : DigitChars[i] = c) - 1

\* Number.prototype.toString of a natural number
RECURSIVE NatToString(_)
NatToString(n) ==
    IF n < 10 THEN <<DigitChars[n + 1]>>
    ELSE NatToString(n \div 10) \o <<DigitChars[(n % 10) + 1]>>

\* a natural number written with at least w digits
RECURSIVE ZeroPadded(_, _)
ZeroPadded(n, w) ==
    IF w <= 1 THEN NatToString(n)
    ELSE LET t == ZeroPadded(n, w - 1)
         IN  IF Len(t) < w THEN <<"0">> \o t ELSE t

AllDigits(t) == Len(t) > 0 /\ \A i \in 1..Len(t) : IsDigit(t[i])

\* Number(t) of a string of decimal digits
RECURSIVE DigitsToNat(_)
DigitsToNat(t) ==
    IF Len(t) = 0 THEN 0
    ELSE 10 * DigitsToNat(SubSeq(t, 1, Len(t) - 1)) + DigitValue(t[Len(t)])

\* String.prototype.split on a separator that is one character of seps
RECURSIVE SplitAt(_, _, _, _)
SplitAt(t, seps, i, cur) ==
    IF i > Len(t) THEN <<cur>>
    ELSE IF t[i] \in seps THEN <<cur>> \o SplitAt(t, seps, i + 1, <<>>)
    ELSE SplitAt(t, seps, i + 1, Append(cur, t[i]))

Split(t, seps) == SplitAt(t, seps, 1, <<>>)

\* parts[i] of a JavaScript array, i counted from 0
ArrayAt(parts, i) ==
    IF i + 1 \in 1..Len(parts) THEN StrVal(parts[i + 1]) ELSE UndefinedVal

\* String.prototype.replace with a global one-character pattern
ReplaceAll(t, from, to) ==
    [i \in 1..Len(t) |-> IF t[i] = from THEN to ELSE t[i]]

Includes(t, c) == \E i \in 1..Len(t) : t[i] = c

(***************************************************************************)
(* The host Date (ECMAScript), as far as the source uses it.  A time value *)
(* is a number of milliseconds since 1970-01-01T00:00:00Z or NaN.  The     *)
(* number exceeds the integers of the model checker, so it is kept as the  *)
(* pair of its whole days and the milliseconds of the day:                 *)
(* getTime() = day * 86400000 + ms.  The host's timezone is the fixed      *)
(* offset tz.                                                              *)
(***************************************************************************)
NaNTime == [nan |-> TRUE, day |-> 0, ms |-> 0]

MsPerDay == 86400000

\* the time value of day days and ms milliseconds, ms of either sign
TimeValue(day, ms) ==
    [nan |-> FALSE, day |-> day + (ms \div MsPerDay), ms |-> ms % MsPerDay]

\* days from 1970-01-01 to the Gregorian date g (2024-03-20 is day 19802)
EpochDay(g) == RefGregorianDayNumber(g) + 19802

GregorianOfEpochDay(n) == RefGregorianOfDay(n - 19802)

\* time value of the UTC fields
MakeTime(y, m, d, hh, mm, ss, ms) ==
    TimeValue(EpochDay(<<y, m, d>>),
              hh * 3600000 + mm * 60000 + ss * 1000 + ms)

\* the number at positions a..b of t, or -1 when they are not all digits
Field(t, a, b) ==
    IF AllDigits(SubSeq(t, a, b)) THEN DigitsToNat(SubSeq(t, a, b)) ELSE 0 - 1

\* the year, month, day at the head of t, separated by sep, in range
DateFieldsOk(t, sep) ==
    /\ Len(t) >= 10
    /\ t[5] = sep
    /\ t[8] = sep
    /\ Field(t, 1, 4) >= 0
    /\ Field(t, 6, 7) \in 1..12
    /\ Field(t, 9, 10) \in 1..RefGregorianMonthLength(Field(t, 1, 4), Field(t, 6, 7))

\* the THH:mm:ss after the date, in range
ClockFieldsOk(t) ==
    /\ Len(t) >= 19
    /\ t[11] = "T"
    /\ t[14] = ":"
    /\ t[17] = ":"
    /\ Field(t, 12, 13) \in 0..23
    /\ Field(t, 15, 16) \in 0..59
    /\ Field(t, 18, 19) \in 0..59

\* new Date(string): the date-time string format of ECMAScript
\* (YYYY-MM-DD is UTC, YYYY-MM-DDTHH:mm:ss is local time, a final Z is UTC),
\* the legacy local-time form YYYY/MM/DD, and NaN for any other string
DateParse(t, offset) ==
    CASE Len(t) = 10 /\ DateFieldsOk(t, "-") ->
            MakeTime(Field(t, 1, 4), Field(t, 6, 7), Field(t, 9, 10), 0, 0, 0, 0)
      [] Len(t) = 10 /\ DateFieldsOk(t, "/") ->
            MakeTime(Field(t, 1, 4), Field(t, 6, 7), Field(t, 9, 10), 0, offset, 0, 0)
      [] Len(t) = 19 /\ DateFieldsOk(t, "-") /\ ClockFieldsOk(t) ->
            MakeTime(Field(t, 1, 4), Field(t, 6, 7), Field(t, 9, 10),
                     Field(t, 12, 13), Field(t, 15, 16) + offset, Field(t, 18, 19), 0)
      [] Len(t) = 24 /\ DateFieldsOk(t, "-") /\ ClockFieldsOk(t)
            /\ t[20] = "." /\ Field(t, 21, 23) >= 0 /\ t[24] = "Z" ->
            MakeTime(Field(t, 1, 4), Field(t, 6, 7), Field(t, 9, 10),
                     Field(t, 12, 13), Field(t, 15, 16), Field(t, 18, 19),
                     Field(t, 21, 23))
      [] OTHER -> NaNTime

\* Date.prototype.getTimezoneOffset, a number of minutes; NaN on an
\* invalid date
getTimezoneOffset(tv, offset) ==
    [nan |-> tv.nan, n |-> IF tv.nan THEN 0 ELSE offset]

\* new Date(date.getTime() - (getTimezoneOffset() - less) * 60000);
\* arithmetic on NaN gives NaN
ShiftedDate(tv, offset, less) ==
    IF tv.nan \/ getTimezoneOffset(tv, offset).nan THEN NaNTime
    ELSE TimeValue(tv.day,
                   tv.ms - (getTimezoneOffset(tv, offset).n - less) * 60000)

\* Date.prototype.toISOString: YYYY-MM-DDTHH:mm:ss.sssZ, and a RangeError
\* on an invalid date
toISOString(tv) ==
    IF tv.nan THEN ThrowVal("RangeError")
    ELSE LET g == GregorianOfEpochDay(tv.day)
             r == tv.ms
         IN  StrVal(ZeroPadded(g[1], 4) \o <<"-">> \o ZeroPadded(g[2], 2)
                      \o <<"-">> \o ZeroPadded(g[3], 2) \o <<"T">>
                      \o ZeroPadded(r \div 3600000, 2) \o <<":">>
                      \o ZeroPadded((r % 3600000) \div 60000, 2) \o <<":">>
                      \o ZeroPadded((r % 60000) \div 1000, 2) \o <<".">>
                      \o ZeroPadded(r % 1000, 3) \o <<"Z">>)

\* String.prototype.slice(0, -1)
DropLast(t) == SubSeq(t, 1, Len(t) - 1)

\* the local calendar day of a valid time value, in days from 1970-01-01
LocalEpochDay(tv, offset) == TimeValue(tv.day, tv.ms - offset * 60000).day

\* Date.prototype.getDay: 0 = Sunday .. 6 = Saturday (1970-01-01 was a
\* Thursday); -1 stands for the NaN of an invalid date
getDay(tv, offset) ==
    IF tv.nan THEN 0 - 1 ELSE (LocalEpochDay(tv, offset) + 4) % 7

PersianDigit(c) == "fa" \o c

PersianDigits(t) == [i \in 1..Len(t) |-> PersianDigit(t[i])]

\* Date.prototype.toLocaleDateString("fa-IR"): year/month/day of the
\* Persian calendar in Persian digits, "Invalid Date" on an invalid date
toLocaleDateString(tv, offset) ==
    IF tv.nan
    THEN <<"I", "n", "v", "a", "l", "i", "d", " ", "D", "a", "t", "e">>
    ELSE LET j == RefJalaliOfDay(LocalEpochDay(tv, offset) - 19802)
         IN  PersianDigits(NatToString(j[1])) \o <<"/">>
               \o PersianDigits(NatToString(j[2])) \o <<"/">>
               \o PersianDigits(NatToString(j[3]))

\* ./parse-arabic: every Persian or Arabic-Indic digit is replaced by its
\* ASCII digit, any other character is kept
parseArabic(t) ==
    [i \in 1..Len(t) |->
        IF \E k \in 1..10 : t[i] = PersianDigit(DigitChars[k])
        THEN DigitChars[CHOOSE k \in 1..10 : t[i] = PersianDigit(DigitChars[k])]
        ELSE t[i]]

(***************************************************************************)
(* The formatting functions, src/src/index.ts 22-251.  A date argument is  *)
(* a record: type "string" with its text, or type "Date" with its time     *)
(* value.  An omitted format is "".                                        *)
(***************************************************************************)
StringArg(t) == [type |-> "string", text |-> t, tv |-> NaNTime]

DateArg(v) == [type |-> "Date", text |-> <<>>, tv |-> v]

NoDate == [type |-> "none", text |-> <<>>, tv |-> NaNTime]

\* typeof date === "string" ? new Date(date) : date  (lines 36, 101-104, 177)
asDate(date, offset) ==
    IF date.type = "string" THEN DateParse(date.text, offset) ELSE date.tv

\* lines 438-451
jalaliMonthNames ==
    <<"Farvardin", "Ordibehesht", "Khordad", "Tir", "Mordad", "Shahrivar",
      "Mehr", "Aban", "Azar", "Dey", "Bahman", "Esfand">>

\* a table in the order of the Persian week, which starts with Saturday
jalaliWeekdayNames_saturdayFirst ==
    <<"Shanbeh", "Yekshanbeh", "Doshanbeh", "Seshanbeh", "Chaharshanbeh",
      "Panjshanbeh", "Jomeh">>

\* lines 452-460: the table starts with Sunday
jalaliWeekdayNames ==
    <<"Yekshanbeh", "Doshanbeh", "Seshanbeh", "Chaharshanbeh", "Panjshanbeh",
      "Jomeh", "Shanbeh">>

\* table[i] of a table of names, i counted from 0; undefined outside it
NameAt(table, i) ==
    IF i + 1 \in 1..Len(table) THEN StrVal(<<table[i + 1]>>) ELSE UndefinedVal

\* month - 1 of a split part (line 111); -1 stands for NaN
monthIndex(month) ==
    IF month.kind = "string" /\ AllDigits(month.text)
    THEN DigitsToNat(month.text) - 1
    ELSE 0 - 1

\* lines 22-28
convertToStandardDateTime(date, offset) ==
    LET localISOTime == toISOString(ShiftedDate(date.tv, offset, 0))
    IN  IF localISOTime.kind = "throw" THEN localISOTime
        ELSE StrVal(DropLast(localISOTime.text))

\* lines 35-42 without the 60 of line 37
convertToISODateTime_noShift(date, offset) ==
    LET formattedDate == asDate(date, offset)
        localISOTime == toISOString(ShiftedDate(formattedDate, offset, 0))
    IN  IF localISOTime.kind = "throw" THEN localISOTime
        ELSE StrVal(DropLast(localISOTime.text))

\* lines 35-42
convertToISODateTime(date, offset) ==
    LET formattedDate == asDate(date, offset)
        localISOTime == toISOString(ShiftedDate(formattedDate, offset, 60))
    IN  IF localISOTime.kind = "throw" THEN localISOTime
        ELSE StrVal(DropLast(localISOTime.text))

\* lines 90-136
convertToJalaliDate(date, format, offset) ==
    LET parsedDate == asDate(date, offset)
        parts == Split(parseArabic(toLocaleDateString(parsedDate, offset)),
                       {"-", "/"})
        year == TemplateText(ArrayAt(parts, 0))
        month == TemplateText(ArrayAt(parts, 1))
        day == TemplateText(ArrayAt(parts, 2))
        weekday == TemplateText(NameAt(jalaliWeekdayNames,
                                       getDay(parsedDate, offset)))
        persianMonth == TemplateText(NameAt(jalaliMonthNames,
                                            monthIndex(ArrayAt(parts, 1))))
        sp == <<" ">>
    IN  CASE format = "day" -> StrVal(day)
          [] format = "weekday" -> StrVal(weekday)
          [] format = "month" -> StrVal(persianMonth)
          [] format = "dayMonth" -> StrVal(day \o sp \o persianMonth)
          [] format = "dayMonthYear" ->
                StrVal(day \o sp \o persianMonth \o sp \o year)
          [] format = "weekdayDayMonth" ->
                StrVal(weekday \o sp \o day \o sp \o persianMonth)
          [] format = "weekdayDayMonthYear" ->
                StrVal(weekday \o sp \o day \o sp \o persianMonth \o sp \o year)
          [] OTHER -> StrVal(year \o <<"-">> \o month \o <<"-">> \o day)

\* lines 181-182: parts[i]?.length < 2 ? `0${parts[i]}` : parts[i]
paddedPart(part) ==
    IF part.kind = "string" /\ Len(part.text) < 2
    THEN StrVal(<<"0">> \o part.text)
    ELSE part

\* lines 176-185
formatToJalaliDatePadded(date, offset) ==
    LET formattedDate == asDate(date, offset)
        parts == Split(parseArabic(toLocaleDateString(formattedDate, offset)),
                       {"-", "/"})
        month == paddedPart(ArrayAt(parts, 1))
        day == paddedPart(ArrayAt(parts, 2))
    IN  StrVal(TemplateText(ArrayAt(parts, 0)) \o <<"-">>
                 \o TemplateText(month) \o <<"-">> \o TemplateText(day))

\* a version that serves only the first Gregorian token
gregorianFormat_firstTokenOnly(date, format, offset) ==
    LET iso == convertToISODateTime(date, offset)
    IN  IF iso.kind = "throw" THEN iso
        ELSE IF format = "YYYY-MM-DD" THEN ArrayAt(Split(iso.text, {"T"}), 0)
        ELSE NullVal

\* lines 224-250: the formats served from convertToISODateTime(date)
gregorianFormat(date, format, offset) ==
    LET iso == convertToISODateTime(date, offset)
        spited == Split(iso.text, {"T"})
        clock == ArrayAt(spited, 1)
        clockSpited == Split(clock.text, {":"})
        ymd == ArrayAt(spited, 0)
        slashed == ReplaceAll(ymd.text, "-", "/")
        hh == TemplateText(ArrayAt(clockSpited, 0))
        mm == TemplateText(ArrayAt(clockSpited, 1))
        ss == ArrayAt(clockSpited, 2)
        seconds == IF ss.kind = "string"
                   THEN ArrayAt(Split(ss.text, {"."}), 0)
                   ELSE UndefinedVal
        readsClock == format \in {"YYYY/MM/DD HH:mm", "HH:mm",
                                  "YYYY/MM/DDTHH:mm:ss"}
    IN  IF iso.kind = "throw" THEN iso
        ELSE IF readsClock /\ clock.kind # "string" THEN ThrowVal("TypeError")
        ELSE CASE format = "YYYY-MM-DD" -> ymd
               [] format = "YYYY/MM/DD" -> StrVal(slashed)
               [] format = "YYYY/MM/DD HH:mm" ->
                     StrVal(slashed \o <<" ">> \o hh \o <<":">> \o mm)
               [] format = "HH:mm" -> StrVal(hh \o <<":">> \o mm)
               [] format = "YYYY/MM/DDTHH:mm:ss" ->
                     StrVal(slashed \o <<"T">> \o hh \o <<":">> \o mm
                              \o <<":">> \o TemplateText(seconds))
               [] OTHER -> NullVal

\* lines 193-251
formatToLocalizedDate(date, format, offset) ==
    LET iso == IF date.type = "Date" THEN toISOString(date.tv)
               ELSE StrVal(date.text)
        d == StringArg(iso.text)
        dashed == IF Includes(d.text, "/")
                  THEN StringArg(ReplaceAll(d.text, "/", "-"))
                  ELSE d
    IN  IF date.type = "string" /\ Len(date.text) = 0 THEN NullVal
        ELSE IF iso.kind = "throw" THEN iso
        ELSE CASE format = "jYYYY-jM-jD" -> convertToJalaliDate(d, "", offset)
               [] format = "jYYYY-jMM-jDD" -> formatToJalaliDatePadded(d, offset)
               [] format = "jMMMM" -> convertToJalaliDate(d, "month", offset)
               [] format = "jD" -> convertToJalaliDate(d, "day", offset)
               [] format = "jDDD" -> convertToJalaliDate(d, "dayMonth", offset)
               [] format = "jDDD-jMM-jYY" ->
                     convertToJalaliDate(d, "dayMonthYear", offset)
               [] OTHER -> gregorianFormat(dashed, format, offset)

(***************************************************************************)
(* SpecConv: the driver of toGregorian and isLeapYearJalali.               *)
(***************************************************************************)
EarlyYears == (AnchorSwitch - YearSpan)..(AnchorSwitch + YearSpan)

ModernYears == (1403 - YearSpan)..(1403 + YearSpan)

Years == EarlyYears \cup ModernYears

LeapYearInputs == (1403 - LeapYearSpan)..(1403 + LeapYearSpan)

RawYears == {0 - 5, 0, AnchorSwitch, AnchorSwitch + 1, 1403}

RawMonths == 0..MaxRawMonth

RawDays == (0 - 1)..MaxRawDay

\* no formatting function is being called
FmtIdle ==
    /\ fmtOp = "none"
    /\ fmtDate = NoDate
    /\ fmtFormat = ""
    /\ fmtRet = Pending

\* the call reads neither the clock nor a second string
HostIdle ==
    /\ now = NaNTime
    /\ textArg = UndefinedVal
    /\ dst = None
    /\ daysArgs = <<>>
    /\ dates = <<>>
    /\ stdRet = Pending

ValidInputs ==
    {d \in Years \X (1..12) \X (1..31) : ValidJalali(d)}

\* integers that are not a date of the calendar
UnvalidatedInputs ==
    {d \in RawYears \X RawMonths \X RawDays : ~ValidJalali(d)}

\* a caller is about to call toGregorian or isLeapYearJalali
ConvInit ==
    /\ ret = None
    /\ iters = 0
    /\ prevArg = None
    /\ prevRet = None
    /\ leapRet = None
    /\ tz = 0
    /\ FmtIdle
    /\ HostIdle
    /\ \/ arg \in ValidInputs \cup UnvalidatedInputs /\ leapArg = None
       \/ arg = None /\ leapArg \in {<<y>> : y \in LeapYearInputs}

\* the pending call of toGregorian returns
CallToGregorian ==
    /\ arg # None
    /\ ret = None
    /\ ret' = toGregorian(arg[1], arg[2], arg[3])
    /\ iters' = monthDecomposition(arg[1], arg[2], arg[3]).n
    /\ UNCHANGED <<arg, prevArg, prevRet, leapArg, leapRet, fmtVars, hostVars>>

\* the caller goes on to convert the following day
ConvertNextDay ==
    /\ ret # None
    /\ ValidJalali(arg)
    /\ LET d == RefJalaliNextDay(arg)
       IN  /\ d[1] \in Years
           /\ arg' = d
           /\ ret' = toGregorian(d[1], d[2], d[3])
           /\ iters' = monthDecomposition(d[1], d[2], d[3]).n
    /\ prevArg' = arg
    /\ prevRet' = ret
    /\ UNCHANGED <<leapArg, leapRet, fmtVars, hostVars>>

\* the pending call of isLeapYearJalali returns
CallIsLeapYearJalali ==
    /\ leapArg # None
    /\ leapRet = None
    /\ leapRet' = <<isLeapYearJalali(leapArg[1])>>
    /\ UNCHANGED <<arg, ret, iters, prevArg, prevRet, leapArg, fmtVars, hostVars>>

ConvNext ==
    \/ CallToGregorian
    \/ ConvertNextDay
    \/ CallIsLeapYearJalali

SpecConv == ConvInit /\ [][ConvNext]_vars

(***************************************************************************)
(* Properties of toGregorian and isLeapYearJalali, checked under SpecConv. *)
(***************************************************************************)

\* C1: for every valid Jalali date, on both anchor branches, toGregorian
\* returns the Gregorian date of that same day: the day counted from
\* 1403/1/1 = 2024-03-20 with the 33-year Jalali leap rule and laid onto the
\* Gregorian calendar with the 4/100/400 rule.
C1_MatchesReference ==
    (ValidJalali(arg) /\ ret # None)
        => ret = RefGregorianOfDay(RefJalaliDayNumber(arg))

\* C2: for two consecutive valid Jalali days of one year, the Gregorian date
\* returned for the later day is exactly one calendar day after the one
\* returned for the earlier day.
C2_ConsecutiveDays ==
    (prevArg # None /\ prevArg[1] = arg[1])
        => RefNextGregorianDay(prevRet, ret)

\* C3: toGregorian(1403, 8, 16) is (2024, 11, 6), and toGregorian(1404, 1, 1)
\* is a date in March 2025.
C3_FixedPoints ==
    /\ (arg = <<1403, 8, 16>> /\ ret # None) => ret = <<2024, 11, 6>>
    /\ (arg = <<1404, 1, 1>> /\ ret # None) => (ret[1] = 2025 /\ ret[2] = 3)

C3_Witness ==
    /\ prevArg = <<1403, 12, 30>>
    /\ arg = <<1404, 1, 1>>
    /\ ret[1] = 2025

\* C4: for every valid Jalali date, toGregorian followed by the mathematical
\* inverse (Gregorian to Jalali by the same epoch and leap rules) gives the
\* original date back.
C4_RoundTrip ==
    (ValidJalali(arg) /\ ret # None)
        => RefJalaliOfDay(RefGregorianDayNumber(ret)) = arg

\* C5: across the 979 / 980 anchor switch there is no gap and no overlap:
\* toGregorian(980, 1, 1) is one calendar day after toGregorian of the last
\* day of 979, and the dates of the days of 979 and 980 strictly increase.
C5_AnchorContinuity ==
    /\ (prevArg # None /\ prevArg[1] = AnchorSwitch
          /\ arg = <<AnchorSwitch + 1, 1, 1>>)
          => RefNextGregorianDay(prevRet, ret)
    /\ (prevArg # None
          /\ prevArg[1] \in {AnchorSwitch, AnchorSwitch + 1}
          /\ arg[1] \in {AnchorSwitch, AnchorSwitch + 1})
          => GregorianBefore(prevRet, ret)

\* C6: isLeapYearJalali(Y) is true exactly when Jalali year Y is a leap year
\* (a year of 366 days), for every Y of the modern range; 1403 is leap.
C6_LeapYearJalali ==
    leapRet # None => (leapRet[1] <=> RefJalaliLeap(leapArg[1]))

\* C7: for every valid Jalali date, on both anchor branches, the triple
\* returned by toGregorian is a well-formed Gregorian date: month in 1..12
\* and day in 1..length of that month in that year.
C7_WellFormedResult ==
    (ValidJalali(arg) /\ ret # None) => WellFormedGregorian(ret)

\* C8: toGregorian does not validate and does not fail: for any integers,
\* months and days outside the calendar included, the month-table walk ends
\* after at most 13 loop bodies and the call returns a triple of integers.
C8_TotalNonValidating ==
    ret # None =>
        /\ iters \in 1..13
        /\ ret[1] \in Int
        /\ ret[2] \in 0..13
        /\ ret[3] \in Int

C8_Witness ==
    /\ arg = <<1403, 13, 35>>
    /\ ret # None
    /\ iters \in 1..13

(***************************************************************************)
(* SpecFmt: the driver of the formatting functions.                        *)
(***************************************************************************)
\* getTimezoneOffset() of Tehran, UTC and New York (winter)
TimezoneOffsets == {0 - 210, 0, 300}

StringInputs ==
    {<<"2", "0", "2", "4", "-", "1", "0", "-", "1", "8">>,
     <<"2", "0", "2", "4", "/", "1", "0", "/", "1", "8">>,
     <<"2", "0", "2", "4", "-", "1", "0", "-", "1", "8", "T", "1", "4", ":", "3", "0", ":", "0", "0">>,
     <<"2", "0", "2", "4", "-", "0", "3", "-", "2", "0", "T", "2", "3", ":", "4", "5", ":", "1", "0", ".", "2", "5", "0", "Z">>,
     <<"2", "0", "2", "5", "-", "0", "1", "-", "0", "1">>,
     <<"n", "o", "t", " ", "a", " ", "d", "a", "t", "e">>,
     <<"2", "0", "2", "4", "/", "1", "3", "/", "4", "5">>,
     <<>>}

\* <<day, ms>> of 2024-10-18T14:30:00Z, 2024-12-31T22:15:05Z,
\* 2024-03-19T20:30:00Z and 2025-07-17T16:54:08.824Z (the README's timestamp)
TimeInputs ==
    {<<20014, 52200000>>, <<20088, 80105000>>, <<19801, 73800000>>,
     <<20286, 60848824>>}

DateObjects ==
    {DateArg(TimeValue(t[1], t[2])) : t \in TimeInputs} \cup {DateArg(NaNTime)}

DateOrStringInputs == DateObjects \cup {StringArg(t) : t \in StringInputs}

\* the format argument of convertToJalaliDate, "" when it is omitted
JalaliFormats ==
    {"", "day", "weekday", "month", "dayMonth", "dayMonthYear",
     "weekdayDayMonth", "weekdayDayMonthYear"}

\* the format tokens that formatToLocalizedDate serves
FormatTokens ==
    {"jYYYY-jM-jD", "jYYYY-jMM-jDD", "jMMMM", "jD", "jDDD", "jDDD-jMM-jYY",
     "YYYY-MM-DD", "YYYY/MM/DD", "YYYY/MM/DD HH:mm", "HH:mm",
     "YYYY/MM/DDTHH:mm:ss"}

OtherTokens ==
    {"", "jYYYY", "jYYYY/jMM/jDD", "jDD", "YYYY", "yyyy-mm-dd",
     "YYYY-MM-DD HH:mm", "HH:mm:ss", "dayMonth"}

\* no conversion function is being called
ConvIdle ==
    /\ arg = None
    /\ ret = None
    /\ iters = 0
    /\ prevArg = None
    /\ prevRet = None
    /\ leapArg = None
    /\ leapRet = None

\* a caller is about to call one of the formatting functions
FmtInit ==
    /\ ConvIdle
    /\ HostIdle
    /\ tz \in TimezoneOffsets
    /\ fmtRet = Pending
    /\ \/ /\ fmtOp = "convertToStandardDateTime"
          /\ fmtDate \in DateObjects
          /\ fmtFormat = ""
       \/ /\ fmtOp \in {"convertToISODateTime", "formatToJalaliDatePadded"}
          /\ fmtDate \in DateOrStringInputs
          /\ fmtFormat = ""
       \/ /\ fmtOp = "convertToJalaliDate"
          /\ fmtDate \in DateOrStringInputs
          /\ fmtFormat \in JalaliFormats
       \/ /\ fmtOp = "formatToLocalizedDate"
          /\ fmtDate \in DateOrStringInputs
          /\ fmtFormat \in FormatTokens \cup OtherTokens

CallConvertToStandardDateTime ==
    /\ fmtOp = "convertToStandardDateTime"
    /\ fmtRet = Pending
    /\ fmtRet' = convertToStandardDateTime(fmtDate, tz)
    /\ UNCHANGED <<convVars, hostVars, tz, fmtOp, fmtDate, fmtFormat>>

CallConvertToISODateTime ==
    /\ fmtOp = "convertToISODateTime"
    /\ fmtRet = Pending
    /\ fmtRet' = convertToISODateTime(fmtDate, tz)
    /\ UNCHANGED <<convVars, hostVars, tz, fmtOp, fmtDate, fmtFormat>>

CallConvertToJalaliDate ==
    /\ fmtOp = "convertToJalaliDate"
    /\ fmtRet = Pending
    /\ fmtRet' = convertToJalaliDate(fmtDate, fmtFormat, tz)
    /\ UNCHANGED <<convVars, hostVars, tz, fmtOp, fmtDate, fmtFormat>>

CallFormatToJalaliDatePadded ==
    /\ fmtOp = "formatToJalaliDatePadded"
    /\ fmtRet = Pending
    /\ fmtRet' = formatToJalaliDatePadded(fmtDate, tz)
    /\ UNCHANGED <<convVars, hostVars, tz, fmtOp, fmtDate, fmtFormat>>

CallFormatToLocalizedDate ==
    /\ fmtOp = "formatToLocalizedDate"
    /\ fmtRet = Pending
    /\ fmtRet' = formatToLocalizedDate(fmtDate, fmtFormat, tz)
    /\ UNCHANGED <<convVars, hostVars, tz, fmtOp, fmtDate, fmtFormat>>

FmtNext ==
    \/ CallConvertToStandardDateTime
    \/ CallConvertToISODateTime
    \/ CallConvertToJalaliDate
    \/ CallFormatToJalaliDatePadded
    \/ CallFormatToLocalizedDate

SpecFmt == FmtInit /\ [][FmtNext]_vars

\* the host parses the date argument to a valid date
ValidDateInput == ~asDate(fmtDate, tz).nan

(***************************************************************************)
(* Properties of the formatting functions, checked under SpecFmt.          *)
(***************************************************************************)

C10_NoErrorOnInvalidDate ==
    (fmtRet # Pending /\ ~ValidDateInput)
        => fmtRet.kind \in {"string", "null"}

(***************************************************************************)
(* The clock and time-string helpers, src/src/index.ts 295-391.            *)
(***************************************************************************)
\* Number.prototype.toString of an integer
IntToString(n) ==
    IF n < 0 THEN <<"-">> \o NatToString(0 - n) ELSE NatToString(n)

\* a number as a value: its text is what a template literal shows
NumVal(n) == [kind |-> "number", text |-> IntToString(n)]

NaNVal == [kind |-> "number", text |-> <<"N", "a", "N">>]

\* the integer of a number value that is not NaN
NumberOf(v) ==
    IF v.text[1] = "-" THEN 0 - DigitsToNat(Tail(v.text))
    ELSE DigitsToNat(v.text)

\* an object literal: the sequence of its <<key, value>> properties
ObjectVal(props) == [kind |-> "object", text |-> props]

\* a.getTime() - b.getTime() of two valid dates, kept as whole days and the
\* milliseconds of the day: the difference is day * 86400000 + ms
TimeDiff(a, b) == TimeValue(a.day - b.day, a.ms - b.ms)

\* a version that rounds down
MathCeilDays_floor(msDiff) == msDiff.day

\* line 349: Math.ceil(msDiff / (1000 * 60 * 60 * 24))
MathCeilDays(msDiff) == msDiff.day + (IF msDiff.ms > 0 THEN 1 ELSE 0)

\* line 344: new Error("Invalid date format. Use ISO format or Date object.")
InvalidDateError ==
    ThrowVal("Error: Invalid date format. Use ISO format or Date object.")

\* a version without the isNaN test: the arithmetic runs on NaN
getDaysFromNow_unchecked(inputDate, clock, offset) ==
    LET targetDate == asDate(inputDate, offset)
    IN  IF targetDate.nan THEN NaNVal
        ELSE NumVal(MathCeilDays(TimeDiff(targetDate, clock)))

\* lines 339-352; clock is the value of new Date() on line 347
getDaysFromNow(inputDate, clock, offset) ==
    LET targetDate == asDate(inputDate, offset)
        msDiff == TimeDiff(targetDate, clock)
        daysDiff == MathCeilDays(msDiff)
    IN  IF targetDate.nan THEN InvalidDateError ELSE NumVal(daysDiff)

\* line 373: the default value of the parameter suffix
suffixOrDefault(suffix) ==
    IF suffix.kind = "undefined" THEN <<"pish">> ELSE suffix.text

\* line 378: Math.floor(diffMs / 1000)
diffSecOf(diffMs) == diffMs.day * 86400 + MathFloorDiv(diffMs.ms, 1000)

\* a version whose month bucket ends at 12 months inclusive
timeAgoPhrase_monthsInclusive(diffSec, sfx) ==
    LET diffMin == MathFloorDiv(diffSec, 60)
        diffHr == MathFloorDiv(diffMin, 60)
        diffDay == MathFloorDiv(diffHr, 24)
        diffMonth == MathFloorDiv(diffDay, 30)
        diffYear == MathFloorDiv(diffDay, 365)
        sp == <<" ">>
    IN  IF diffSec < 60 THEN StrVal(<<"lahazati">> \o sp \o sfx)
        ELSE IF diffMin < 60
             THEN StrVal(IntToString(diffMin) \o sp \o <<"daghigheh">> \o sp \o sfx)
        ELSE IF diffHr < 24
             THEN StrVal(IntToString(diffHr) \o sp \o <<"saat">> \o sp \o sfx)
        ELSE IF diffDay < 30
             THEN StrVal(IntToString(diffDay) \o sp \o <<"rooz">> \o sp \o sfx)
        ELSE IF diffMonth <= 12
             THEN StrVal(IntToString(diffMonth) \o sp \o <<"mah">> \o sp \o sfx)
        ELSE StrVal(IntToString(diffYear) \o sp \o <<"sal">> \o sp \o sfx)

\* lines 379-390: the bucket of diffSec whole seconds
timeAgoPhrase(diffSec, sfx) ==
    LET diffMin == MathFloorDiv(diffSec, 60)
        diffHr == MathFloorDiv(diffMin, 60)
        diffDay == MathFloorDiv(diffHr, 24)
        diffMonth == MathFloorDiv(diffDay, 30)
        diffYear == MathFloorDiv(diffDay, 365)
        sp == <<" ">>
    IN  IF diffSec < 60 THEN StrVal(<<"lahazati">> \o sp \o sfx)
        ELSE IF diffMin < 60
             THEN StrVal(IntToString(diffMin) \o sp \o <<"daghigheh">> \o sp \o sfx)
        ELSE IF diffHr < 24
             THEN StrVal(IntToString(diffHr) \o sp \o <<"saat">> \o sp \o sfx)
        ELSE IF diffDay < 30
             THEN StrVal(IntToString(diffDay) \o sp \o <<"rooz">> \o sp \o sfx)
        ELSE IF diffMonth < 12
             THEN StrVal(IntToString(diffMonth) \o sp \o <<"mah">> \o sp \o sfx)
        ELSE StrVal(IntToString(diffYear) \o sp \o <<"sal">> \o sp \o sfx)

\* lines 373-391; on an invalid date every difference is NaN, every
\* comparison is false and the last template shows NaN
getTimeAgo(date, suffix, clock, offset) ==
    LET d == asDate(date, offset)
        sfx == suffixOrDefault(suffix)
    IN  IF d.nan
        THEN StrVal(<<"N", "a", "N", " ", "sal", " ">> \o sfx)
        ELSE timeAgoPhrase(diffSecOf(TimeDiff(clock, d)), sfx)

\* String.prototype.split(separator, limit)
SplitLimit(t, seps, limit) ==
    LET parts == Split(t, seps)
    IN  SubSeq(parts, 1, IF Len(parts) < limit THEN Len(parts) ELSE limit)

\* lines 298, 312: parts[1]?.slice(0, 5)
sliceHead5(v) ==
    IF v.kind = "string"
    THEN StrVal(SubSeq(v.text, 1, IF Len(v.text) < 5 THEN Len(v.text) ELSE 5))
    ELSE UndefinedVal

\* lines 295-302
getCurrentTime(timeString) ==
    IF timeString.kind # "undefined"
    THEN sliceHead5(ArrayAt(SplitLimit(timeString.text, {"T"}, 2), 1))
    ELSE StrVal(<<>>)

\* lines 309-315
getTimeFromDate(timeString) ==
    IF timeString.kind # "undefined"
    THEN sliceHead5(ArrayAt(SplitLimit(timeString.text, {"T"}, 2), 1))
    ELSE StrVal(<<>>)

\* a version without the typeof test: split is read from undefined
getTimeParts_unguarded(timeString) ==
    IF timeString.kind # "undefined"
    THEN LET parts == SplitLimit(timeString.text, {":"}, 2)
         IN  ObjectVal(<<<<"hour", ArrayAt(parts, 0)>>,
                         <<"minute", ArrayAt(parts, 1)>>,
                         <<"second", ArrayAt(parts, 2)>>>>)
    ELSE ThrowVal("TypeError")

\* lines 322-332
getTimeParts(timeString) ==
    IF timeString.kind # "undefined"
    THEN LET parts == SplitLimit(timeString.text, {":"}, 2)
         IN  ObjectVal(<<<<"hour", ArrayAt(parts, 0)>>,
                         <<"minute", ArrayAt(parts, 1)>>,
                         <<"second", ArrayAt(parts, 2)>>>>)
    ELSE ObjectVal(<<>>)

(***************************************************************************)
(* SpecTime: the driver of the clock and time-string helpers.              *)
(***************************************************************************)
MaxDayOffset == 40

MaxElapsedDays == 740

\* new Date() at 2025-07-17T16:54:08.824Z and at 2024-10-18T00:00:00.000Z
ClockInputs == {TimeValue(20286, 60848824), TimeValue(20014, 0)}

\* milliseconds added to a whole number of days
MsOffsets == {0 - 43200000, 0 - 1, 0, 1, 43200000}

\* the dates within MaxDayOffset days of the clock
DatesAround(clock) ==
    {DateArg(TimeValue(clock.day + k, clock.ms + m)) :
        k \in (0 - MaxDayOffset)..MaxDayOffset, m \in MsOffsets}

\* milliseconds elapsed on top of a whole number of days; the negative one
\* makes a date in the future
ElapsedMs ==
    {0 - 1000, 0, 999, 59999, 60000, 3599999, 3600000, 86399999}

\* the dates up to MaxElapsedDays days before the clock
DatesBefore(clock) ==
    {DateArg(TimeValue(clock.day - k, clock.ms - m)) :
        k \in 0..MaxElapsedDays, m \in ElapsedMs}

\* the suffix argument of getTimeAgo: omitted, a word, the empty string
Suffixes == {UndefinedVal, StrVal(<<"ghabl">>), StrVal(<<>>)}

TimeStrings ==
    {<<"2", "0", "2", "4", "-", "1", "0", "-", "1", "8", "T", "1", "4", ":", "3", "0", ":", "0", "0">>,
     <<"2", "0", "2", "4", "-", "0", "3", "-", "2", "0", "T", "2", "3", ":", "4", "5", ":", "1", "0", ".", "2", "5", "0", "Z">>,
     <<"1", "4", ":", "3", "0", ":", "4", "5">>,
     <<"1", "4", ":", "3", "0">>,
     <<"0", "9", ":", "0", "5", ":", "0", "0">>,
     <<"2", "0", "2", "4", "-", "1", "0", "-", "1", "8">>,
     <<"T", "9", ":", "5">>,
     <<"n", "o", "t", " ", "a", " ", "d", "a", "t", "e">>,
     <<>>}

\* the timeString argument, undefined when it is missing
TimeStringInputs == {StrVal(t) : t \in TimeStrings} \cup {UndefinedVal}

\* a caller is about to call one of the helpers
TimeInit ==
    /\ ConvIdle
    /\ dst = None
    /\ daysArgs = <<>>
    /\ dates = <<>>
    /\ stdRet = Pending
    /\ fmtFormat = ""
    /\ fmtRet = Pending
    /\ \/ /\ fmtOp = "getDaysFromNow"
          /\ now \in ClockInputs
          /\ \/ tz = 0 /\ fmtDate \in DatesAround(now) \cup {DateArg(NaNTime)}
             \/ tz \in TimezoneOffsets
                /\ fmtDate \in {StringArg(t) : t \in StringInputs}
          /\ textArg = UndefinedVal
       \/ /\ fmtOp = "getTimeAgo"
          /\ now \in ClockInputs
          /\ \/ tz = 0 /\ fmtDate \in DatesBefore(now) \cup {DateArg(NaNTime)}
             \/ tz \in TimezoneOffsets
                /\ fmtDate \in {StringArg(t) : t \in StringInputs}
          /\ textArg \in Suffixes
       \/ /\ fmtOp \in {"getCurrentTime", "getTimeFromDate", "getTimeParts"}
          /\ now = NaNTime
          /\ tz = 0
          /\ fmtDate = NoDate
          /\ textArg \in TimeStringInputs

CallGetDaysFromNow ==
    /\ fmtOp = "getDaysFromNow"
    /\ fmtRet = Pending
    /\ fmtRet' = getDaysFromNow(fmtDate, now, tz)
    /\ UNCHANGED <<convVars, hostVars, tz, fmtOp, fmtDate, fmtFormat>>

CallGetTimeAgo ==
    /\ fmtOp = "getTimeAgo"
    /\ fmtRet = Pending
    /\ fmtRet' = getTimeAgo(fmtDate, textArg, now, tz)
    /\ UNCHANGED <<convVars, hostVars, tz, fmtOp, fmtDate, fmtFormat>>

CallGetCurrentTime ==
    /\ fmtOp = "getCurrentTime"
    /\ fmtRet = Pending
    /\ fmtRet' = getCurrentTime(textArg)
    /\ UNCHANGED <<convVars, hostVars, tz, fmtOp, fmtDate, fmtFormat>>

CallGetTimeFromDate ==
    /\ fmtOp = "getTimeFromDate"
    /\ fmtRet = Pending
    /\ fmtRet' = getTimeFromDate(textArg)
    /\ UNCHANGED <<convVars, hostVars, tz, fmtOp, fmtDate, fmtFormat>>

CallGetTimeParts ==
    /\ fmtOp = "getTimeParts"
    /\ fmtRet = Pending
    /\ fmtRet' = getTimeParts(textArg)
    /\ UNCHANGED <<convVars, hostVars, tz, fmtOp, fmtDate, fmtFormat>>

TimeNext ==
    \/ CallGetDaysFromNow
    \/ CallGetTimeAgo
    \/ CallGetCurrentTime
    \/ CallGetTimeFromDate
    \/ CallGetTimeParts

SpecTime == TimeInit /\ [][TimeNext]_vars

(***************************************************************************)
(* Properties of the clock and time-string helpers, checked under          *)
(* SpecTime.                                                               *)
(***************************************************************************)

\* C11: getDaysFromNow raises the error "Invalid date format. Use ISO format
\* or Date object." exactly when the parsed input (string or Date) is the
\* host's invalid date, and then gives no number; for every valid date it
\* raises nothing and gives a number.
C11_InvalidDateError ==
    (fmtOp = "getDaysFromNow" /\ fmtRet # Pending)
        => /\ ~ValidDateInput => fmtRet = InvalidDateError
           /\ ValidDateInput => fmtRet.kind = "number"

C11_Witness ==
    /\ fmtOp = "getDaysFromNow"
    /\ fmtDate = StringArg(<<"n", "o", "t", " ", "a", " ", "d", "a", "t", "e">>)
    /\ fmtRet = InvalidDateError

\* the parsed target date minus the clock, as whole days and milliseconds
TargetMinusNow == TimeDiff(asDate(fmtDate, tz), now)

\* C12: for a valid target date, getDaysFromNow returns the ceiling of
\* (target - now) / 86,400,000 ms, the least integer n with
\* n * 86,400,000 >= target - now; so it is at most 0 for a past target, 0
\* for a target in (now - 1 day, now], and k for a target in
\* (now + (k-1) days, now + k days].
C12_CeilingOfDays ==
    (fmtOp = "getDaysFromNow" /\ fmtRet # Pending /\ ValidDateInput)
        => LET n == NumberOf(fmtRet)
               d == TargetMinusNow
           IN  /\ (n - d.day) * MsPerDay >= d.ms
               /\ (n - 1 - d.day) * MsPerDay < d.ms
               /\ (d.day < 0) => n <= 0
               /\ ((d.day = 0 - 1 /\ d.ms > 0) \/ (d.day = 0 /\ d.ms = 0))
                     => n = 0
               /\ \A k \in 1..MaxDayOffset :
                     ((d.day = k - 1 /\ d.ms > 0) \/ (d.day = k /\ d.ms = 0))
                         => n = k

C12_Witness ==
    /\ fmtOp = "getDaysFromNow"
    /\ fmtRet = NumVal(MaxDayOffset)
    /\ TargetMinusNow.day = MaxDayOffset - 1
    /\ TargetMinusNow.ms = 1

\* whole seconds elapsed from the parsed date to the clock
ElapsedSeconds ==
    LET e == TimeDiff(now, asDate(fmtDate, tz))
    IN  e.day * 86400 + (e.ms \div 1000)

\* the phrase "<count> <unit> <suffix>"
CountPhrase(count, unit) ==
    StrVal(IntToString(count) \o <<" ", unit, " ">> \o
           (IF textArg = UndefinedVal THEN <<"pish">> ELSE textArg.text))

\* C13: getTimeAgo selects exactly one bucket from the whole elapsed seconds
\* s: s < 60 gives the moments phrase; else under 60 whole minutes, the
\* minutes; else under 24 whole hours, the hours; else under 30 whole days,
\* the days; else under 12 whole 30-day months, the months; else the years
\* (of 365 days).  The number is the whole count of the bucket's unit and
\* the suffix (by default the word pish) is appended.
C13_TimeAgoBuckets ==
    (fmtOp = "getTimeAgo" /\ fmtRet # Pending /\ ValidDateInput)
        => LET s == ElapsedSeconds
           IN  fmtRet =
                 (CASE s < 60 ->
                         StrVal(<<"lahazati", " ">> \o
                                (IF textArg = UndefinedVal THEN <<"pish">>
                                 ELSE textArg.text))
                    [] s >= 60 /\ s < 3600 -> CountPhrase(s \div 60, "daghigheh")
                    [] s >= 3600 /\ s < 86400 -> CountPhrase(s \div 3600, "saat")
                    [] s >= 86400 /\ s < 30 * 86400 ->
                         CountPhrase(s \div 86400, "rooz")
                    [] s >= 30 * 86400 /\ s < 360 * 86400 ->
                         CountPhrase(s \div (30 * 86400), "mah")
                    [] OTHER -> CountPhrase(s \div (365 * 86400), "sal"))

C13_Witness ==
    /\ fmtOp = "getTimeAgo"
    /\ fmtDate.type = "Date"
    /\ textArg = UndefinedVal
    /\ ElapsedSeconds = 45 * 86400 + 3600
    /\ fmtRet = StrVal(<<"1", " ", "mah", " ", "pish">>)

\* t is a time string HH:mm:ss
IsClockString(t) ==
    /\ Len(t) = 8
    /\ t[3] = ":"
    /\ t[6] = ":"
    /\ \A i \in {1, 2, 4, 5, 7, 8} : IsDigit(t[i])

\* C14: getTimeParts of a time string HH:mm:ss returns the object with
\* hour = HH, minute = mm and second = ss ("14:30:45" gives hour "14",
\* minute "30", second "45").
C14_TimeParts ==
    (fmtOp = "getTimeParts" /\ fmtRet.kind # "pending"
       /\ textArg.kind = "string" /\ IsClockString(textArg.text))
        => fmtRet = ObjectVal(<<<<"hour", StrVal(SubSeq(textArg.text, 1, 2))>>,
                                <<"minute", StrVal(SubSeq(textArg.text, 4, 5))>>,
                                <<"second", StrVal(SubSeq(textArg.text, 7, 8))>>>>)

\* C15 as stated: called with undefined, getCurrentTime, getTimeFromDate and
\* getTimeParts each return the empty string and do not raise.
C15_EmptyStringOnMissing ==
    (fmtOp \in {"getCurrentTime", "getTimeFromDate", "getTimeParts"}
       /\ fmtRet.kind # "pending" /\ textArg = UndefinedVal)
        => fmtRet = StrVal(<<>>)

\* C15 amended: called with undefined, none of the three raises;
\* getCurrentTime and getTimeFromDate return the empty string and
\* getTimeParts returns the empty object.
C15_EmptyResultOnMissing ==
    (fmtRet.kind # "pending" /\ textArg = UndefinedVal)
        => /\ fmtOp \in {"getCurrentTime", "getTimeFromDate"}
                => fmtRet = StrVal(<<>>)
           /\ fmtOp = "getTimeParts" => fmtRet = ObjectVal(<<>>)

C15_Witness ==
    /\ fmtOp = "getTimeParts"
    /\ textArg = UndefinedVal
    /\ fmtRet = ObjectVal(<<>>)

\* t is a date-time string YYYY-MM-DDTHH:mm:ss
IsDateTimeString(t) ==
    /\ Len(t) = 19
    /\ t[11] = "T"
    /\ IsClockString(SubSeq(t, 12, 19))

\* C16: for every string argument getTimeFromDate and getCurrentTime return
\* a string; for YYYY-MM-DDTHH:mm:ss it is the five characters HH:mm after
\* the T ("2024-10-18T14:30:00" gives "14:30"), and for a string without T
\* it is still a string.
C16_TimeOfDateString ==
    (fmtOp \in {"getCurrentTime", "getTimeFromDate"}
       /\ fmtRet.kind # "pending" /\ textArg.kind = "string")
        => /\ fmtRet.kind = "string"
           /\ IsDateTimeString(textArg.text)
                => fmtRet.text = SubSeq(textArg.text, 12, 16)

(***************************************************************************)
(* The Gregorian string functions, src/src/index.ts 60-66 and 143-169.     *)
(***************************************************************************)
\* a timestamp argument: typeof date === "number" ? new Date(date) : date
NumberArg(v) == [type |-> "number", text |-> <<>>, tv |-> v]

\* Number(part) of one part of the split string (line 61): a run of digits
\* is its number, the empty string is 0, any other text is NaN
NumberOfPart(v) ==
    IF v.kind = "string" /\ Len(v.text) = 0 THEN [nan |-> FALSE, n |-> 0]
    ELSE IF v.kind = "string" /\ AllDigits(v.text)
    THEN [nan |-> FALSE, n |-> DigitsToNat(v.text)]
    ELSE [nan |-> TRUE, n |-> 0]

\* line 61: const [year, month, day] = jalaliDate.split(/[/-]/).map(Number);
\* a missing element is undefined, which is NaN in the arithmetic
jalaliParts(jalaliDate) ==
    LET parts == Split(jalaliDate, {"/", "-"})
    IN  <<NumberOfPart(ArrayAt(parts, 0)), NumberOfPart(ArrayAt(parts, 1)),
          NumberOfPart(ArrayAt(parts, 2))>>

\* the toGregorian call of line 62, None when an argument is NaN
jalaliCall(jalaliDate) ==
    LET p == jalaliParts(jalaliDate)
    IN  IF p[1].nan \/ p[2].nan \/ p[3].nan THEN None
        ELSE <<p[1].n, p[2].n, p[3].n>>

\* a version that does not pad
padStart2_plain(t) == t

\* String.prototype.padStart(2, "0")
padStart2(t) == IF Len(t) < 2 THEN <<"0">> \o t ELSE t

\* lines 60-66.  With a NaN argument toGregorian returns [NaN, 13, NaN]:
\* every comparison with NaN is false, so the month loop runs to gm = 13
convertToGregorianDateString(jalaliDate) ==
    LET c == jalaliCall(jalaliDate)
        g == toGregorian(c[1], c[2], c[3])
    IN  IF c = None
        THEN StrVal(<<"N", "a", "N", "/", "1", "3", "/", "N", "a", "N">>)
        ELSE StrVal(IntToString(g[1]) \o <<"/">> \o padStart2(IntToString(g[2]))
                      \o <<"/">> \o padStart2(IntToString(g[3])))

\* lines 145-147: getFullYear(), getMonth() + 1, getDate() of a valid date
localDate(tv, offset) == GregorianOfEpochDay(LocalEpochDay(tv, offset))

\* lines 143-149; the fields of an invalid date are NaN
formatToGregorianDate(date, offset) ==
    LET formattedDate == asDate(date, offset)
        g == localDate(formattedDate, offset)
    IN  IF formattedDate.nan
        THEN StrVal(<<"N", "a", "N", "-", "N", "a", "N", "-", "N", "a", "N">>)
        ELSE StrVal(IntToString(g[1]) \o <<"-">> \o IntToString(g[2])
                      \o <<"-">> \o IntToString(g[3]))

\* a version that keeps the number as it is
zeroSlice2_plain(n) == IntToString(n)

\* lines 166-167: ("0" + n).slice(-2)
zeroSlice2(n) ==
    LET t == <<"0">> \o IntToString(n)
    IN  SubSeq(t, Len(t) - 1, Len(t))

\* lines 159-169
formatToGregorianDateTime(year, month, day, time) ==
    LET date == toGregorian(year, month, day)
    IN  StrVal(IntToString(date[1]) \o <<"-">> \o zeroSlice2(date[2])
                 \o <<"-">> \o zeroSlice2(date[3]) \o <<"T">>
                 \o TemplateText(time))

(***************************************************************************)
(* SpecGreg: the driver of the Gregorian string functions and of the       *)
(* README's calls of convertToJalaliDate.                                  *)
(***************************************************************************)
MaxGregDay == 366

\* the Jalali dates the strings and the numeric arguments spell
GregYears == {AnchorSwitch - 1, 1403, 1404}

GregDateInputs == {d \in GregYears \X (1..12) \X (1..31) : ValidJalali(d)}

\* year, month and day joined by sep, each at least w digits wide
JalaliText(d, sep, w) ==
    NatToString(d[1]) \o <<sep>> \o ZeroPadded(d[2], w) \o <<sep>>
      \o ZeroPadded(d[3], w)

\* "1403/8/16", "1403-8-16", "1403/08/16", "1403-08-16", and strings that
\* are not a date
JalaliStrings ==
    {JalaliText(d, sep, w) : d \in GregDateInputs, sep \in {"/", "-"},
                             w \in {1, 2}}
      \cup {<<"1", "4", "0", "3", "/", "8">>,
            <<>>,
            <<"n", "o", "t", " ", "a", " ", "d", "a", "t", "e">>,
            <<"1", "4", "0", "3", "/", "x", "/", "1", "6">>}

\* the time argument of formatToGregorianDateTime
ClockTexts == {StrVal(<<"1", "4", ":", "3", "0">>), StrVal(<<"0", "9", ":", "0", "5", ":", "0", "7">>), StrVal(<<>>)}

\* the time values from 2024-01-01T00:00:00Z on, at midnight, at
\* 12:00:00.000 and at 21:30:00.000
GregTimes ==
    {TimeValue(19723 + k, m) : k \in 0..MaxGregDay,
                               m \in {0, 43200000, 77400000}}

\* a timestamp or a Date
GregDateArgs ==
    {NumberArg(v) : v \in GregTimes} \cup {DateArg(v) : v \in GregTimes}
      \cup {DateArg(NaNTime), NumberArg(NaNTime)}

\* the date arguments of the README's calls of convertToJalaliDate:
\* "2024-10-18", the timestamp 1752771248824 and a Date
ReadmeDates ==
    {StringArg(<<"2", "0", "2", "4", "-", "1", "0", "-", "1", "8">>), NumberArg(TimeValue(20286, 60848824)),
     DateArg(TimeValue(20014, 52200000))}

\* the formats of the README's calls
ReadmeFormats == JalaliFormats \cup {"year"}

\* a caller is about to call one of the functions
GregInit ==
    /\ ret = None
    /\ iters = 0
    /\ prevArg = None
    /\ prevRet = None
    /\ leapArg = None
    /\ leapRet = None
    /\ now = NaNTime
    /\ dst = None
    /\ daysArgs = <<>>
    /\ dates = <<>>
    /\ stdRet = Pending
    /\ fmtRet = Pending
    /\ \/ /\ fmtOp = "convertToGregorianDateString"
          /\ arg = None
          /\ textArg \in {StrVal(t) : t \in JalaliStrings}
          /\ fmtDate = NoDate
          /\ fmtFormat = ""
          /\ tz = 0
       \/ /\ fmtOp = "formatToGregorianDateTime"
          /\ arg \in GregDateInputs
          /\ textArg \in ClockTexts
          /\ fmtDate = NoDate
          /\ fmtFormat = ""
          /\ tz = 0
       \/ /\ fmtOp = "formatToGregorianDate"
          /\ arg = None
          /\ textArg = UndefinedVal
          /\ fmtDate \in GregDateArgs
          /\ fmtFormat = ""
          /\ tz \in TimezoneOffsets
       \/ /\ fmtOp = "convertToJalaliDate"
          /\ arg = None
          /\ textArg = UndefinedVal
          /\ fmtDate \in ReadmeDates
          /\ fmtFormat \in ReadmeFormats
          /\ tz \in TimezoneOffsets

\* the call returns; arg and ret record the toGregorian call it made
CallConvertToGregorianDateString ==
    /\ fmtOp = "convertToGregorianDateString"
    /\ fmtRet = Pending
    /\ fmtRet' = convertToGregorianDateString(textArg.text)
    /\ LET c == jalaliCall(textArg.text)
       IN  /\ arg' = c
           /\ ret' = IF c = None THEN None ELSE toGregorian(c[1], c[2], c[3])
    /\ UNCHANGED <<iters, prevArg, prevRet, leapArg, leapRet, hostVars, tz,
                   fmtOp, fmtDate, fmtFormat>>

CallFormatToGregorianDateTime ==
    /\ fmtOp = "formatToGregorianDateTime"
    /\ fmtRet = Pending
    /\ fmtRet' = formatToGregorianDateTime(arg[1], arg[2], arg[3], textArg)
    /\ ret' = toGregorian(arg[1], arg[2], arg[3])
    /\ UNCHANGED <<arg, iters, prevArg, prevRet, leapArg, leapRet, hostVars,
                   tz, fmtOp, fmtDate, fmtFormat>>

CallFormatToGregorianDate ==
    /\ fmtOp = "formatToGregorianDate"
    /\ fmtRet = Pending
    /\ fmtRet' = formatToGregorianDate(fmtDate, tz)
    /\ UNCHANGED <<convVars, hostVars, tz, fmtOp, fmtDate, fmtFormat>>

GregNext ==
    \/ CallConvertToGregorianDateString
    \/ CallFormatToGregorianDateTime
    \/ CallFormatToGregorianDate
    \/ CallConvertToJalaliDate

SpecGreg == GregInit /\ [][GregNext]_vars

(***************************************************************************)
(* Properties of the Gregorian string functions and of the README's calls  *)
(* of convertToJalaliDate, checked under SpecGreg.                         *)
(***************************************************************************)

\* C17: convertToGregorianDateString("1403/8/16") returns "2024/11/6": the
\* result is the toGregorian year, month and day of the parsed Jalali date
\* joined by "/", month and day written as plain numbers, and it is the
\* same for an input separated by "/" or by "-".
C17_GregorianDateString ==
    (fmtOp = "convertToGregorianDateString" /\ fmtRet.kind # "pending"
       /\ arg # None)
        => /\ fmtRet = StrVal(IntToString(ret[1]) \o <<"/">>
                                \o IntToString(ret[2]) \o <<"/">>
                                \o IntToString(ret[3]))
           /\ textArg.text \in {<<"1", "4", "0", "3", "/", "8", "/", "1", "6">>,
                                <<"1", "4", "0", "3", "-", "8", "-", "1", "6">>}
                => fmtRet = StrVal(<<"2", "0", "2", "4", "/", "1", "1", "/", "6">>)

\* the local calendar date of the valid date argument
LocalGregorianDate ==
    RefGregorianOfDay(LocalEpochDay(asDate(fmtDate, tz), tz) - 19802)

\* C18: for every valid timestamp or Date, formatToGregorianDate returns the
\* local Gregorian year, month and day as YYYY-MM-DD, with a two-digit month
\* and a two-digit day for every month 1..12 and every day 1..31.
C18_GregorianDatePadded ==
    (fmtOp = "formatToGregorianDate" /\ fmtRet.kind # "pending"
       /\ ValidDateInput)
        => fmtRet = StrVal(ZeroPadded(LocalGregorianDate[1], 4) \o <<"-">>
                             \o ZeroPadded(LocalGregorianDate[2], 2) \o <<"-">>
                             \o ZeroPadded(LocalGregorianDate[3], 2))

\* C19: formatToGregorianDateTime(jy, jm, jd, time) returns YYYY-MM-DDTtime
\* where (YYYY, MM, DD) is toGregorian(jy, jm, jd), month and day zero-padded
\* to two digits and the time appended unchanged; (1403, 7, 26, "14:30")
\* gives "2024-10-17T14:30".
C19_GregorianDateTime ==
    (fmtOp = "formatToGregorianDateTime" /\ fmtRet.kind # "pending")
        => /\ fmtRet = StrVal(NatToString(ret[1]) \o <<"-">>
                                \o ZeroPadded(ret[2], 2) \o <<"-">>
                                \o ZeroPadded(ret[3], 2) \o <<"T">>
                                \o textArg.text)
           /\ (arg = <<1403, 7, 26>> /\ textArg = StrVal(<<"1", "4", ":", "3", "0">>))
                => fmtRet = StrVal(<<"2", "0", "2", "4", "-", "1", "0", "-", "1", "7", "T", "1", "4", ":", "3", "0">>)

C19_Witness ==
    /\ fmtOp = "formatToGregorianDateTime"
    /\ arg = <<1403, 7, 26>>
    /\ textArg = StrVal(<<"1", "4", ":", "3", "0">>)
    /\ fmtRet = StrVal(<<"2", "0", "2", "4", "-", "1", "0", "-", "1", "7", "T", "1", "4", ":", "3", "0">>)

\* the Jalali year of the local calendar date of the valid date argument
LocalJalaliYear ==
    RefJalaliOfDay(LocalEpochDay(asDate(fmtDate, tz), tz) - 19802)[1]

\* C20: convertToJalaliDate(date, "year") returns only the Jalali year of
\* the date ("1404" for the timestamp 1752771248824), not a full
\* year-month-day string.
C20_JalaliYearOnly ==
    (fmtOp = "convertToJalaliDate" /\ fmtFormat = "year"
       /\ fmtRet.kind # "pending" /\ ValidDateInput)
        => /\ fmtRet = StrVal(NatToString(LocalJalaliYear))
           /\ fmtDate = NumberArg(TimeValue(20286, 60848824))
                => fmtRet = StrVal(<<"1", "4", "0", "4">>)

(***************************************************************************)
(* SpecNames: the driver of convertToJalaliDate on the formats that read   *)
(* the weekday and month tables, for every day of more than a year.        *)
(***************************************************************************)
MaxNameDay == 400

\* Dates from 2024-01-01T00:00:00Z on, at midnight and at 21:30 UTC
NameDates ==
    {DateArg(TimeValue(19723 + k, m)) : k \in 0..MaxNameDay,
                                        m \in {0, 77400000}}
      \cup {StringArg(<<"2", "0", "2", "4", "-", "1", "0", "-", "1", "8">>)}

NameFormats == {"weekday", "month", "weekdayDayMonthYear"}

NamesInit ==
    /\ ConvIdle
    /\ HostIdle
    /\ tz \in TimezoneOffsets
    /\ fmtRet = Pending
    /\ fmtOp = "convertToJalaliDate"
    /\ fmtDate \in NameDates
    /\ fmtFormat \in NameFormats

NamesNext == CallConvertToJalaliDate

SpecNames == NamesInit /\ [][NamesNext]_vars

(***************************************************************************)
(* Properties of the name tables, checked under SpecNames.                 *)
(***************************************************************************)
\* the Persian week, which starts on Saturday
RefPersianWeek ==
    <<"Shanbeh", "Yekshanbeh", "Doshanbeh", "Seshanbeh", "Chaharshanbeh",
      "Panjshanbeh", "Jomeh">>

\* the name of the weekday of the local calendar day of the date argument:
\* 1970-01-01 was a Thursday, the sixth day of the Persian week
RefWeekdayName ==
    RefPersianWeek[((LocalEpochDay(asDate(fmtDate, tz), tz) + 5) % 7) + 1]

\* the local calendar day of the date argument in the Jalali calendar
LocalJalaliDate ==
    RefJalaliOfDay(LocalEpochDay(asDate(fmtDate, tz), tz) - 19802)

RefPersianMonths ==
    <<"Farvardin", "Ordibehesht", "Khordad", "Tir", "Mordad", "Shahrivar",
      "Mehr", "Aban", "Azar", "Dey", "Bahman", "Esfand">>

\* C21: the weekday name convertToJalaliDate produces is the Persian name of
\* the weekday of the date (the table is indexed by getDay(), 0 = Sunday, and
\* starts with Sunday); a date that is Friday 2024-10-18 yields Jomeh.  For a
\* valid date neither the weekday table nor the month table is indexed out
\* of range: the month name is the name of the Jalali month and no part of a
\* result is undefined.
C21_WeekdayAndMonthNames ==
    (fmtOp = "convertToJalaliDate" /\ fmtRet.kind # "pending"
       /\ ValidDateInput)
        => /\ fmtFormat = "weekday" => fmtRet = StrVal(<<RefWeekdayName>>)
           /\ (fmtFormat = "weekday" /\ LocalGregorianDate = <<2024, 10, 18>>)
                => fmtRet = StrVal(<<"Jomeh">>)
           /\ fmtFormat = "month"
                => fmtRet = StrVal(<<RefPersianMonths[LocalJalaliDate[2]]>>)
           /\ fmtFormat = "weekdayDayMonthYear"
                => fmtRet = StrVal(<<RefWeekdayName, " ">>
                                     \o NatToString(LocalJalaliDate[3])
                                     \o <<" ", RefPersianMonths[LocalJalaliDate[2]],
                                          " ">>
                                     \o NatToString(LocalJalaliDate[1]))

C21_Witness ==
    /\ fmtOp = "convertToJalaliDate"
    /\ fmtFormat = "weekday"
    /\ fmtDate.type = "string"
    /\ tz = 0 - 210
    /\ fmtRet = StrVal(<<"Jomeh">>)

(***************************************************************************)
(* Local time of the host with daylight saving (ECMAScript LocalTime and   *)
(* UTC), as far as setDate and new Date(y, m, d) use it.  std is the       *)
(* standard getTimezoneOffset() in minutes; period is None or              *)
(* <<from, to>>, the time values between which the clock is one hour       *)
(* ahead of standard time.                                                 *)
(***************************************************************************)
TimeBefore(a, b) == a.day < b.day \/ (a.day = b.day /\ a.ms < b.ms)

\* getTimezoneOffset() at the time value tv
OffsetAt(tv, std, period) ==
    IF period # None /\ ~TimeBefore(tv, period[1]) /\ TimeBefore(tv, period[2])
    THEN std - 60
    ELSE std

\* LocalTime(t): the local reading of tv, as a time value
LocalTime(tv, std, period) ==
    TimeValue(tv.day, tv.ms - OffsetAt(tv, std, period) * 60000)

\* UTC(t): the time value of the local reading t.  A reading that occurs
\* twice (clocks set back) is its first occurrence; a reading that never
\* occurs (clocks set forward) is taken with the offset before the change
UTC(t, std, period) ==
    LET viaStd == TimeValue(t.day, t.ms + std * 60000)
        viaDst == TimeValue(t.day, t.ms + (std - 60) * 60000)
    IN  IF period # None /\ OffsetAt(viaDst, std, period) = std - 60
        THEN viaDst
        ELSE viaStd

\* a version that changes the receiver itself (const date = this)
DT_addDaysToDate_inPlace(this, days, std, period) ==
    LET t == LocalTime(this, std, period)
        u == UTC(TimeValue(t.day + days, t.ms), std, period)
    IN  IF this.nan THEN [this |-> this, result |-> NaNTime]
        ELSE [this |-> u, result |-> u]

\* lines 399-403: a copy of the receiver (line 400), setDate(getDate() +
\* days) on the copy in local time (line 401).  this is the receiver after
\* the call, result the Date returned
DT_addDaysToDate(this, days, std, period) ==
    LET t == LocalTime(this, std, period)
        u == UTC(TimeValue(t.day + days, t.ms), std, period)
    IN  IF this.nan THEN [this |-> this, result |-> NaNTime]
        ELSE [this |-> this, result |-> u]

\* lines 411-413
addDaysToDate(date, daysCount, std, period) ==
    DT_addDaysToDate(date, daysCount, std, period)

\* new Date(year, monthIndex, day): local midnight of the day; a month
\* index outside 0..11 carries into the year and a day outside the month
\* into the following months (MakeDay)
NewLocalDate(y, m, d, std, period) ==
    LET ym == y + MathFloorDiv(m, 12)
        mn == m % 12
    IN  UTC(TimeValue(EpochDay(<<ym, mn + 1, 1>>) + d - 1, 0), std, period)

\* lines 49-53; with a NaN argument the Date is invalid
convertToGregorianDate(jalaliDate, std, period) ==
    LET c == jalaliCall(jalaliDate)
        g == toGregorian(c[1], c[2], c[3])
    IN  IF c = None THEN NaNTime
        ELSE NewLocalDate(g[1], g[2] - 1, g[3], std, period)

(***************************************************************************)
(* SpecDate: the driver of the functions that return a Date.               *)
(***************************************************************************)
MaxAddDays == 3

\* the years of the Jalali date strings given to convertToGregorianDate
DateYears == {AnchorSwitch - 3, 1402, 1403}

DateStrings ==
    {JalaliText(d, sep, 1) :
        d \in {v \in DateYears \X (1..12) \X (1..31) : ValidJalali(v)},
        sep \in {"/", "-"}}
      \cup {<<"n", "o", "t", " ", "a", " ", "d", "a", "t", "e">>}

\* the hosts: Tehran and UTC without daylight saving, New York with the
\* daylight-saving period 2024-03-10T07:00Z .. 2024-11-03T06:00Z
Hosts ==
    {<<0 - 210, None>>, <<0, None>>,
     <<300, <<TimeValue(19792, 25200000), TimeValue(20030, 21600000)>>>>}

\* 2024-03-09T07:30Z and 2024-03-08T07:30Z (02:30 in New York, one and two
\* days before the hour that is skipped), 2024-11-03T06:30Z and
\* 2024-11-03T05:30Z (the two 01:30 of the repeated hour in New York),
\* 2024-10-18T14:30Z, 2024-12-31T22:15:05Z, 2024-02-28T23:59:59.999Z
AddDateInputs ==
    {TimeValue(19791, 27000000), TimeValue(19790, 27000000),
     TimeValue(20030, 23400000), TimeValue(20030, 19800000),
     TimeValue(20014, 52200000), TimeValue(20088, 80105000),
     TimeValue(19781, 86399999), NaNTime}

DayCounts == (0 - MaxAddDays)..MaxAddDays

\* a caller is about to add days to a Date, once or twice in a row
DateInit ==
    /\ ret = None
    /\ iters = 0
    /\ prevArg = None
    /\ prevRet = None
    /\ leapArg = None
    /\ leapRet = None
    /\ now = NaNTime
    /\ fmtFormat = ""
    /\ fmtRet = Pending
    /\ \E h \in Hosts : tz = h[1] /\ dst = h[2]
    /\ \/ /\ fmtOp = "addDaysToDate"
          /\ arg = None
          /\ textArg = UndefinedVal
          /\ fmtDate \in {DateArg(v) : v \in AddDateInputs}
          /\ dates = <<fmtDate.tv>>
          /\ stdRet = Pending
          /\ daysArgs \in {<<a>> : a \in DayCounts}
                            \cup {<<a, b>> : a \in DayCounts, b \in DayCounts}
       \/ /\ fmtOp = "convertToGregorianDate"
          /\ arg = None
          /\ textArg \in {StrVal(t) : t \in DateStrings}
          /\ fmtDate = NoDate
          /\ dates = <<>>
          /\ stdRet = Pending
          /\ daysArgs = <<>>

\* the next call returns: its receiver is the newest Date
CallAddDaysToDate ==
    /\ fmtOp = "addDaysToDate"
    /\ Len(dates) <= Len(daysArgs)
    /\ LET k == Len(dates)
           r == addDaysToDate(dates[k], daysArgs[k], tz, dst)
       IN  dates' = Append([dates EXCEPT ![k] = r.this], r.result)
    /\ UNCHANGED <<convVars, fmtVars, now, textArg, dst, daysArgs, stdRet>>

\* the call returns; arg and ret record the toGregorian call it made
CallConvertToGregorianDate ==
    /\ fmtOp = "convertToGregorianDate"
    /\ dates = <<>>
    /\ dates' = <<convertToGregorianDate(textArg.text, tz, dst)>>
    /\ LET c == jalaliCall(textArg.text)
       IN  /\ arg' = c
           /\ ret' = IF c = None THEN None ELSE toGregorian(c[1], c[2], c[3])
    /\ UNCHANGED <<iters, prevArg, prevRet, leapArg, leapRet, fmtVars, now,
                   textArg, dst, daysArgs, stdRet>>

DateNext ==
    \/ CallAddDaysToDate
    \/ CallConvertToGregorianDate

SpecDate == DateInit /\ [][DateNext]_vars

(***************************************************************************)
(* Properties of the functions that return a Date, checked under SpecDate. *)
(***************************************************************************)
\* the local calendar day of a time value on the host, in days from
\* 1970-01-01
CalendarDay(tv) == LocalTime(tv, tz, dst).day

\* C22 as stated: addDaysToDate(date, n) returns a new date that lies n
\* calendar days after the input (n of either sign or 0) and leaves the
\* input unchanged; addDaysToDate(date, 0) equals the input, and
\* addDaysToDate(addDaysToDate(date, a), b) equals
\* addDaysToDate(date, a + b).
C22_AddDays ==
    (fmtOp = "addDaysToDate" /\ ~fmtDate.tv.nan)
        => /\ dates[1] = fmtDate.tv
           /\ Len(dates) >= 2
                => CalendarDay(dates[2]) = CalendarDay(dates[1]) + daysArgs[1]
           /\ (Len(dates) >= 2 /\ daysArgs[1] = 0) => dates[2] = dates[1]
           /\ Len(dates) = 3
                => dates[3] = addDaysToDate(fmtDate.tv,
                                            daysArgs[1] + daysArgs[2],
                                            tz, dst).result

\* C22 amended: addDaysToDate(date, n) returns a new date whose local
\* calendar day lies n days after that of the input and leaves the input
\* unchanged; on a host whose UTC offset never changes the result is exactly
\* n times 24 hours after the input, addDaysToDate(date, 0) equals the input
\* and addDaysToDate(addDaysToDate(date, a), b) equals
\* addDaysToDate(date, a + b).
C22_AddDaysLocal ==
    (fmtOp = "addDaysToDate" /\ ~fmtDate.tv.nan)
        => /\ dates[1] = fmtDate.tv
           /\ Len(dates) >= 2
                => CalendarDay(dates[2]) = CalendarDay(dates[1]) + daysArgs[1]
           /\ (Len(dates) >= 2 /\ dst = None)
                => dates[2] = TimeValue(dates[1].day + daysArgs[1], dates[1].ms)
           /\ (Len(dates) = 3 /\ dst = None)
                => dates[3] = addDaysToDate(fmtDate.tv,
                                            daysArgs[1] + daysArgs[2],
                                            tz, dst).result

C22_Witness ==
    /\ fmtOp = "addDaysToDate"
    /\ dst # None
    /\ fmtDate = DateArg(TimeValue(19791, 27000000))
    /\ daysArgs = <<1, 2>>
    /\ Len(dates) = 3
    /\ dates[1] = fmtDate.tv
    /\ CalendarDay(dates[3]) = CalendarDay(dates[1]) + 3

\* the numbers of the parts of a printed date
PrintedDate(t, seps) ==
    LET parts == Split(t, seps)
    IN  <<DigitsToNat(parts[1]), DigitsToNat(parts[2]), DigitsToNat(parts[3])>>

\* C23: the gm returned by toGregorian is 1-indexed (1 = January .. 12 =
\* December) and every call site treats it so: for every valid Jalali date
\* string, the local year, month and day of the Date returned by
\* convertToGregorianDate (built with month gm - 1) equal the year, month and
\* day printed by convertToGregorianDateString and by
\* formatToGregorianDateTime for the same input.
C23_MonthIndexConvention ==
    (fmtOp = "convertToGregorianDate" /\ Len(dates) = 1 /\ arg # None
       /\ ValidJalali(arg))
        => LET ymd == RefGregorianOfDay(CalendarDay(dates[1]) - 19802)
               printed == convertToGregorianDateString(textArg.text).text
               stamped == formatToGregorianDateTime(arg[1], arg[2], arg[3],
                                                    StrVal(<<>>)).text
           IN  /\ ret[2] \in 1..12
               /\ ymd = PrintedDate(printed, {"/"})
               /\ ymd = PrintedDate(SubSeq(stamped, 1, Len(stamped) - 1), {"-"})

(***************************************************************************)
(* Further properties of toGregorian, checked under SpecConv.              *)
(***************************************************************************)

\* C24: for every valid Jalali input, after the 400 -> 100 -> 4 -> 1 year
\* reduction the value gd = days + 1 that enters the month-table walk is a
\* day-of-year of the computed year gy (1..365, or 1..366 when gy is a
\* Gregorian leap year), and gy is the year that contains the day: the
\* reduction never steps the year past it in either direction.
C24_DayOfYearRange ==
    (ValidJalali(arg) /\ ret # None)
        => LET s == yearReduction(arg[1], arg[2], arg[3])
               gd == s.days + 1
           IN  /\ gd >= 1
               /\ gd <= (IF RefGregorianLeap(s.gy) THEN 366 ELSE 365)
               /\ s.gy = RefGregorianOfDay(RefJalaliDayNumber(arg))[1]

(***************************************************************************)
(* SpecYear: the driver that converts the first day of successive years.   *)
(***************************************************************************)
YearStartSpan == 40

YearStartYears ==
    ((AnchorSwitch - YearStartSpan)..(AnchorSwitch + YearStartSpan))
      \cup ((1403 - YearStartSpan)..(1403 + YearStartSpan))

\* a caller is about to convert 1 Farvardin of a year
YearInit ==
    /\ arg \in {<<y, 1, 1>> : y \in YearStartYears}
    /\ ret = None
    /\ iters = 0
    /\ prevArg = None
    /\ prevRet = None
    /\ leapArg = None
    /\ leapRet = None
    /\ tz = 0
    /\ FmtIdle
    /\ HostIdle

\* the caller goes on to convert 1 Farvardin of the following year
ConvertNextYear ==
    /\ ret # None
    /\ arg[1] + 1 \in YearStartYears
    /\ arg' = <<arg[1] + 1, 1, 1>>
    /\ ret' = toGregorian(arg[1] + 1, 1, 1)
    /\ iters' = monthDecomposition(arg[1] + 1, 1, 1).n
    /\ prevArg' = arg
    /\ prevRet' = ret
    /\ UNCHANGED <<leapArg, leapRet, fmtVars, hostVars>>

YearNext ==
    \/ CallToGregorian
    \/ ConvertNextYear

SpecYear == YearInit /\ [][YearNext]_vars

(***************************************************************************)
(* Properties of the year length, checked under SpecYear.                  *)
(***************************************************************************)

\* C25: for every jy on either side of the 979 switch, toGregorian(jy + 1,
\* 1, 1) is exactly 365 calendar days after toGregorian(jy, 1, 1) when jy is
\* a common year and 366 days after when jy is a leap year of the 33-year
\* rule, the same rule on both branches; month 12 so has 29 or 30 days and
\* the day after its last day is day 1 of month 1 of the next year.
C25_YearLength ==
    prevArg # None
        => LET jy == prevArg[1]
               len == IF RefJalaliLeap(jy) THEN 366 ELSE 365
               lastDay == toGregorian(jy, 12, RefJalaliMonthLength(jy, 12))
           IN  /\ RefGregorianDayNumber(ret) - RefGregorianDayNumber(prevRet)
                    = len
               /\ RefNextGregorianDay(lastDay, ret)

(***************************************************************************)
(* Properties of toGregorian on pairs of inputs, checked under SpecConv.   *)
(***************************************************************************)
\* the same day and month of the year before and of the year after
SameDayOfAdjacentYears(d) ==
    {e \in {<<d[1] - 1, d[2], d[3]>>, <<d[1] + 1, d[2], d[3]>>} :
        ValidJalali(e)}

\* C26: toGregorian maps distinct valid Jalali dates to distinct Gregorian
\* triples: the date converted before (the previous day) and the same day of
\* the adjacent years never give the triple returned for this date.
C26_Injective ==
    (ValidJalali(arg) /\ ret # None)
        => /\ prevArg # None => prevRet # ret
           /\ \A e \in SameDayOfAdjacentYears(arg) :
                 toGregorian(e[1], e[2], e[3]) # ret

\* C27: toGregorian depends on jm and jd only through the ordinal
\* jd + monthOffset(jm): for every jy, every jm in 1..11 and every k,
\* toGregorian(jy, jm, L + k) = toGregorian(jy, jm + 1, k), with L = 31 for
\* jm <= 6 and L = 30 for jm >= 7; a day past the end of a month rolls over
\* into the following month.
C27_OrdinalDependence ==
    (ret # None /\ arg[2] \in 1..11)
        => LET L == IF arg[2] <= 6 THEN 31 ELSE 30
           IN  ret = toGregorian(arg[1], arg[2] + 1, arg[3] - L)

C27_Witness ==
    /\ arg = <<1403, 6, 33>>
    /\ ret = <<2024, 9, 23>>

(***************************************************************************)
(* A further property of getTimeAgo, checked under SpecTime.               *)
(***************************************************************************)

\* C28: for every elapsed time of 60 seconds or more the result of
\* getTimeAgo is not the moments phrase and the count it reports is at least
\* 1: never 0 minutes, 0 hours, 0 days, 0 months or 0 years; whenever the
\* years bucket is selected the year count is at least 1.
C28_CountAtLeastOne ==
    (fmtOp = "getTimeAgo" /\ fmtRet # Pending /\ ValidDateInput
       /\ ElapsedSeconds >= 60)
        => /\ IsDigit(fmtRet.text[1])
           /\ fmtRet.text[1] # "0"

(***************************************************************************)
(* SpecIso: a caller asks for both local date-time strings of one Date.    *)
(***************************************************************************)
MaxIsoDay == 20

\* times of day: midnight, 14:30, 20:00, 20:30, 23:00, 23:30 and the last
\* millisecond of the day
IsoClockTimes ==
    {0, 52200000, 72000000, 73800000, 82800000, 84600000, 86399999}

\* Date objects from 2024-03-18 on, and an invalid Date
IsoDates ==
    {DateArg(TimeValue(19800 + k, m)) : k \in 0..MaxIsoDay, m \in IsoClockTimes}
        \cup {DateArg(NaNTime)}

IsoInit ==
    /\ ConvIdle
    /\ HostIdle
    /\ tz \in TimezoneOffsets
    /\ fmtOp = "convertToISODateTime"
    /\ fmtDate \in IsoDates
    /\ fmtFormat = ""
    /\ fmtRet = Pending

\* the caller's call of convertToStandardDateTime on the same Date
CallStandardOfSameDate ==
    /\ fmtOp = "convertToISODateTime"
    /\ stdRet = Pending
    /\ stdRet' = convertToStandardDateTime(fmtDate, tz)
    /\ UNCHANGED <<convVars, fmtVars, now, textArg, dst, daysArgs, dates>>

IsoNext ==
    \/ CallStandardOfSameDate
    \/ CallConvertToISODateTime

SpecIso == IsoInit /\ [][IsoNext]_vars

\* the instant a local date-time string of 23 characters denotes when it is
\* read as a UTC reading
InstantOf(text) == DateParse(text \o <<"Z">>, 0)

====
